---- MODULE Spec2Model ----
(***************************************************************************)
(* Model of audiomenu (src/audiomenu.py): a dmenu script that selects the  *)
(* default PipeWire audio device.                                          *)
(*                                                                         *)
(* Text is a sequence of one-character strings, so that formatting and     *)
(* splitting are computed character by character.  A JSON value decoded    *)
(* from pw-dump is a tagged record: k is its Python type, n / s / d its    *)
(* integer, text or mapping payload.                                       *)
(***************************************************************************)
EXTENDS Integers, Sequences, FiniteSets, TLC

VARIABLES
    cmd,       \* the subcommand that runs: "select_source" or "select_sink"
    pc,        \* position of the running code
    dump,      \* what pw-dump wrote: [valid |-> is it JSON, nodes |-> the decoded list]
    devices,   \* the list returned by get_inputs() / get_outputs()
    calls,     \* the external commands run so far, in order
    menuOut,   \* standard output of the menu program
    id,        \* the local variable id of the handler (a text)
    outcome,   \* "running", "exit0" (handler returned) or "error" (uncaught exception)
    exc,       \* the last exception raised in the handler, "none" if none
    node,      \* the argument of audio_device_from_pw_node
    result,    \* what audio_device_from_pw_node did with node
    dev,       \* one AudioDevice, rendered as a menu line
    line       \* the menu line of dev, then the text the menu wrote for it

vars == <<cmd, pc, dump, devices, calls, menuOut, id, outcome, exc, node, result, dev, line>>

----------------------------------------------------------------------------
(* Bounds *)

MaxDump == 2      \* number of records in one pw-dump output
MaxNameLen == 2   \* length of a device name in the menu-line round trip
MaxId == 120      \* the round trip takes every id in -MaxId .. MaxId

----------------------------------------------------------------------------
(* JSON values *)

JNull == [k |-> "null", n |-> 0, s |-> <<>>, d |-> <<>>]
JList == [k |-> "list", n |-> 0, s |-> <<>>, d |-> <<>>]
JNum(i) == [k |-> "num", n |-> i, s |-> <<>>, d |-> <<>>]
JStr(t) == [k |-> "str", n |-> 0, s |-> t, d |-> <<>>]
JDict(f) == [k |-> "dict", n |-> 0, s |-> <<>>, d |-> f]

None == JNull

PW_NODE == <<"P", "i", "p", "e", "W", "i", "r", "e", ":", "I", "n", "t", "e", "r", "f", "a", "c", "e", ":", "N", "o", "d", "e">>
PW_PORT == <<"P", "i", "p", "e", "W", "i", "r", "e", ":", "I", "n", "t", "e", "r", "f", "a", "c", "e", ":", "P", "o", "r", "t">>
AUDIO_SINK == <<"A", "u", "d", "i", "o", "/", "S", "i", "n", "k">>
AUDIO_SOURCE == <<"A", "u", "d", "i", "o", "/", "S", "o", "u", "r", "c", "e">>
VIDEO_SOURCE == <<"V", "i", "d", "e", "o", "/", "S", "o", "u", "r", "c", "e">>
HEADSET_MIC == <<"H", "e", "a", "d", "s", "e", "t", " ", "M", "i", "c">>
SPEAKERS == <<"S", "p", "e", "a", "k", "e", "r", "s">>
USB_2 == <<"U", "S", "B", " ", "2">>

\* node[key] in Python: the value, or the exception the subscript raises.
GetItem(v, key) ==
    IF v.k = "dict"
    THEN IF key \in DOMAIN v.d
         THEN [exc |-> "none", val |-> v.d[key]]
         ELSE [exc |-> "KeyError", val |-> JNull]
    ELSE [exc |-> "TypeError", val |-> JNull]

----------------------------------------------------------------------------
(* Text: str(), f-strings, str.join and str.split *)

DIGITS == <<"0", "1", "2", "3", "4", "5", "6", "7", "8", "9">>

RECURSIVE NatToStr(_)
NatToStr(m) ==
    IF m < 10 THEN <<DIGITS[m + 1]>>
    ELSE NatToStr(m \div 10) \o <<DIGITS[(m % 10) + 1]>>

\* str(n) of a Python int.
IntToStr(m) == IF m < 0 THEN <<"-">> \o NatToStr(0 - m) ELSE NatToStr(m)

\* What "{v}" puts in an f-string.
FormatValue(v) ==
    CASE v.k = "num" -> IntToStr(v.n)
      [] v.k = "str" -> v.s
      [] v.k = "null" -> <<"N", "o", "n", "e">>
      [] v.k = "list" -> <<"[", "]">>

RECURSIVE Join(_, _)
Join(sep, parts) ==
    IF Len(parts) = 0 THEN <<>>
    ELSE IF Len(parts) = 1 THEN parts[1]
    ELSE parts[1] \o sep \o Join(sep, Tail(parts))

\* text.split(sep) for a one-character sep.
RECURSIVE Split(_, _)
Split(text, sep) ==
    IF \E i \in 1..Len(text) : text[i] = sep
    THEN LET i == CHOOSE j \in 1..Len(text) :
                    /\ text[j] = sep
                    /\ \A h \in 1..(j - 1) : text[h] # sep
         IN <<SubSeq(text, 1, i - 1)>> \o Split(SubSeq(text, i + 1, Len(text)), sep)
    ELSE <<text>>

\* Mutant of FirstField: the last field is taken, split(" ")[-1].
LastField(text) == Split(text, " ")[Len(Split(text, " "))]

\* Mutant of FirstField: the output is stripped instead of split.
StrippedOutput(text) ==
    LET keep == {i \in 1..Len(text) : text[i] \notin {" ", "\n"}} IN
    IF keep = {} THEN <<>>
    ELSE SubSeq(text, CHOOSE i \in keep : \A j \in keep : i <= j,
                      CHOOSE i \in keep : \A j \in keep : i >= j)

\* output.stdout.split(" ")[0]
FirstField(text) == Split(text, " ")[1]

----------------------------------------------------------------------------
(* AudioDevice and the device parser *)

INPUT == "INPUT"
OUTPUT == "OUTPUT"

AudioDevice(i, nm, dir) ==
    [id |-> i, name |-> nm, direction |-> dir, muted |-> None, volume |-> None]

Returned(v) == [tag |-> "return", val |-> v, exc |-> "none"]
Raised(e) == [tag |-> "raise", val |-> None, exc |-> e]
Pending == [tag |-> "pending", val |-> None, exc |-> "none"]

\* Mutant of MatchMediaClass: the two directions exchanged.
MatchMediaClassSwapped(mc) ==
    IF mc = JStr(AUDIO_SINK) THEN INPUT
    ELSE IF mc = JStr(AUDIO_SOURCE) THEN OUTPUT
    ELSE "no match"

\* The match statement on props["media.class"]: the direction, or the default case.
MatchMediaClass(mc) ==
    IF mc = JStr(AUDIO_SINK) THEN OUTPUT
    ELSE IF mc = JStr(AUDIO_SOURCE) THEN INPUT
    ELSE "no match"

\* The body of the try block: the first subscript that fails raises.
ParseBody(nd) ==
    LET t == GetItem(nd, "type") IN
    IF t.exc # "none" THEN Raised(t.exc)
    ELSE IF t.val # JStr(PW_NODE) THEN Returned(None)
    ELSE LET info == GetItem(nd, "info") IN
    IF info.exc # "none" THEN Raised(info.exc)
    ELSE LET props == GetItem(info.val, "props") IN
    IF props.exc # "none" THEN Raised(props.exc)
    ELSE LET i == GetItem(props.val, "object.id") IN
    IF i.exc # "none" THEN Raised(i.exc)
    ELSE LET nm == GetItem(props.val, "node.description") IN
    IF nm.exc # "none" THEN Raised(nm.exc)
    ELSE LET mc == GetItem(props.val, "media.class") IN
    IF mc.exc # "none" THEN Raised(mc.exc)
    ELSE LET direction == MatchMediaClass(mc.val) IN
    IF direction = "no match" THEN Returned(None)
    ELSE Returned(AudioDevice(i.val, nm.val, direction))

\* Mutant of audio_device_from_pw_node: the except clause is missing.
audio_device_no_except(nd) == ParseBody(nd)

audio_device_from_pw_node(nd) ==
    LET r == ParseBody(nd) IN
    IF r.tag = "raise" /\ r.exc = "KeyError" THEN Returned(None) ELSE r

----------------------------------------------------------------------------
(* The raw node records the parser is applied to *)

Restrict(f, keys) == [x \in keys |-> f[x]]

LeafShapes == {JNull, JList, JNum(7), JStr(USB_2)}

PropsDicts ==
    { JDict(Restrict([p \in {"object.id", "node.description", "media.class"} |->
                        CASE p = "object.id" -> i
                          [] p = "node.description" -> nm
                          [] OTHER -> mc], keys)) :
        i \in {JNum(42), JNum(-3), JStr(USB_2)},
        nm \in {JStr(HEADSET_MIC), JNull},
        mc \in {JStr(AUDIO_SINK), JStr(AUDIO_SOURCE), JStr(VIDEO_SOURCE), JNull},
        keys \in SUBSET {"object.id", "node.description", "media.class"} }

InfoDicts ==
    { JDict([p \in {"props"} |-> pr]) : pr \in PropsDicts \cup LeafShapes }
        \cup {JDict(<<>>)}

NodeRecords ==
    { JDict(Restrict([p \in {"type", "info"} |-> IF p = "type" THEN t ELSE inf], keys)) :
        t \in {JStr(PW_NODE), JStr(PW_PORT), JNull},
        inf \in InfoDicts \cup LeafShapes,
        keys \in SUBSET {"type", "info"} }

RawNodes == NodeRecords \cup LeafShapes

----------------------------------------------------------------------------
(* The parser applied to one record *)

Idle == /\ cmd = "none" /\ dump = [valid |-> FALSE, nodes |-> <<>>]
        /\ devices = <<>> /\ calls = <<>> /\ menuOut = <<>> /\ id = <<>>
        /\ outcome = "running" /\ exc = "none"

InitParse ==
    /\ Idle
    /\ pc = "parse"
    /\ node \in RawNodes
    /\ result = Pending
    /\ dev = None /\ line = <<>>

Parse ==
    /\ pc = "parse"
    /\ result' = audio_device_from_pw_node(node)
    /\ pc' = "parsed"
    /\ UNCHANGED <<cmd, dump, devices, calls, menuOut, id, outcome, exc, node, dev, line>>

NextParse == Parse

SpecParse == InitParse /\ [][NextParse]_vars

----------------------------------------------------------------------------
(* The device lister *)

ProcResults == {"ok", "nonzero", "oserror"}

\* Mutant of RunCheck: run() without check=True, the exit code is ignored.
RunUnchecked(res) == IF res = "oserror" THEN "OSError" ELSE "none"

\* run(..., check=True): the exception it raises for a result of the process.
RunCheck(res) ==
    CASE res = "ok" -> "none"
      [] res = "nonzero" -> "CalledProcessError"
      [] res = "oserror" -> "OSError"

\* The list comprehension of get_audio_devices: parse each record in order,
\* keep the devices; an exception of the parser ends it.
RECURSIVE ParseAll(_)
ParseAll(nodes) ==
    IF Len(nodes) = 0 THEN Returned(<<>>)
    ELSE LET r == audio_device_from_pw_node(Head(nodes)) IN
         IF r.tag = "raise" THEN r
         ELSE LET rest == ParseAll(Tail(nodes)) IN
              IF rest.tag = "raise" THEN rest
              ELSE IF r.val = None THEN rest
              ELSE Returned(<<r.val>> \o rest.val)

get_audio_devices(res, out) ==
    IF RunCheck(res) # "none" THEN Raised(RunCheck(res))
    ELSE IF ~out.valid THEN Raised("JSONDecodeError")
    ELSE ParseAll(out.nodes)

\* Mutant of is_input: the comparison is with the other direction.
is_input_wrong(d) == d.direction = OUTPUT

is_input(d) == d.direction = INPUT

is_output(d) == d.direction = OUTPUT

get_inputs(res, out) ==
    LET r == get_audio_devices(res, out) IN
    IF r.tag = "raise" THEN r ELSE Returned(SelectSeq(r.val, is_input))

get_outputs(res, out) ==
    LET r == get_audio_devices(res, out) IN
    IF r.tag = "raise" THEN r ELSE Returned(SelectSeq(r.val, is_output))

----------------------------------------------------------------------------
(* The command handlers select_source and select_sink *)

\* f"{dev.id} {dev.name}"
MenuLine(d) == FormatValue(d.id) \o <<" ">> \o FormatValue(d.name)

\* "\n".join(f"{dev.id} {dev.name}" for dev in devs)
Sources(devs) == Join(<<"\n">>, [i \in 1..Len(devs) |-> MenuLine(devs[i])])

\* Mutant of Catches: the try block is around the set-default call only.
CatchesSetDefaultOnly(c, stage, e) == e = "CalledProcessError" /\ stage = "set-default"

\* Mutant of Catches: the try block is around the menu call only.
CatchesMenuOnly(c, stage, e) == e = "CalledProcessError" /\ stage = "menu"

\* Is exception e, raised at a stage of handler c, caught by its except clause:
\* select_source lists the devices inside the try block, select_sink before it.
Catches(c, stage, e) ==
    /\ e = "CalledProcessError"
    /\ stage = "list" => c = "select_source"

SeqsUpTo(S, m) == UNION {[1..h -> S] : h \in 0..m}

MkNode(type, i, nm, mc) ==
    JDict([p \in {"type", "info"} |->
        IF p = "type" THEN JStr(type)
        ELSE JDict([q \in {"props"} |->
            JDict([r \in {"object.id", "node.description", "media.class"} |->
                CASE r = "object.id" -> JNum(i)
                  [] r = "node.description" -> JStr(nm)
                  [] OTHER -> JStr(mc)])])])

\* The records of a dump: a sink, two sources, a port, a node without props
\* and a node whose info is null.
DumpNodes ==
    { MkNode(PW_NODE, 42, SPEAKERS, AUDIO_SINK),
      MkNode(PW_NODE, 57, HEADSET_MIC, AUDIO_SOURCE),
      MkNode(PW_NODE, 7, USB_2, AUDIO_SOURCE),
      MkNode(PW_PORT, 58, HEADSET_MIC, AUDIO_SOURCE),
      JDict([p \in {"type", "info"} |-> IF p = "type" THEN JStr(PW_NODE) ELSE JDict(<<>>)]),
      JDict([p \in {"type", "info"} |-> IF p = "type" THEN JStr(PW_NODE) ELSE JNull]) }

NoDump == [valid |-> FALSE, nodes |-> <<>>]

DumpOutputs == {NoDump} \cup {[valid |-> TRUE, nodes |-> ns] : ns \in SeqsUpTo(DumpNodes, MaxDump)}

\* What the menu program can write when it exits 0: one of the lines it was
\* given, or a text the user typed.
MenuChoices(sources) ==
    {Split(sources, "\n")[i] \o <<"\n">> : i \in 1..Len(Split(sources, "\n"))}
        \cup {<<>>, <<"n", "o", " ", "x", "\n">>}

Init ==
    /\ cmd \in {"select_source", "select_sink"}
    /\ pc = "start"
    /\ dump = NoDump
    /\ devices = <<>> /\ calls = <<>> /\ menuOut = <<>> /\ id = <<>>
    /\ outcome = "running" /\ exc = "none"
    /\ node = None /\ result = Pending /\ dev = None /\ line = <<>>

\* The handler ends: normally, on an exception it catches, or on one it does not.
Finish(stage, e) ==
    /\ pc' = "done"
    /\ exc' = e
    /\ outcome' = IF e = "none" \/ Catches(cmd, stage, e) THEN "exit0" ELSE "error"

\* get_inputs() / get_outputs(): pw-dump is run and its output parsed.
ListDevices ==
    /\ pc = "start"
    /\ \E res \in ProcResults, out \in DumpOutputs :
        LET written == IF res = "ok" THEN out ELSE NoDump
            r == IF cmd = "select_source" THEN get_inputs(res, written)
                 ELSE get_outputs(res, written)
        IN /\ calls' = Append(calls, [prog |-> "pw-dump", arg |-> <<>>, res |-> res])
           /\ dump' = written
           /\ IF r.tag = "raise"
              THEN Finish("list", r.exc) /\ UNCHANGED devices
              ELSE /\ devices' = r.val
                   /\ pc' = "listed"
                   /\ UNCHANGED <<outcome, exc>>
    /\ UNCHANGED <<cmd, menuOut, id, node, result, dev, line>>

\* run(menu, input=sources, check=True) and id = output.stdout.split(" ")[0]
RunMenu ==
    /\ pc = "listed"
    /\ \E res \in ProcResults, out \in MenuChoices(Sources(devices)) :
        LET written == IF res = "ok" THEN out ELSE <<>> IN
        /\ calls' = Append(calls, [prog |-> "menu", arg |-> Sources(devices), res |-> res])
        /\ IF RunCheck(res) # "none"
           THEN Finish("menu", RunCheck(res)) /\ UNCHANGED <<menuOut, id>>
           ELSE /\ menuOut' = written
                /\ id' = FirstField(written)
                /\ pc' = "picked"
                /\ UNCHANGED <<outcome, exc>>
    /\ UNCHANGED <<cmd, dump, devices, node, result, dev, line>>

\* run(["wpctl", "set-default", id], check=True)
RunSetDefault ==
    /\ pc = "picked"
    /\ \E res \in ProcResults :
        /\ calls' = Append(calls, [prog |-> "wpctl", arg |-> id, res |-> res])
        /\ Finish("set-default", RunCheck(res))
    /\ UNCHANGED <<cmd, dump, devices, menuOut, id, node, result, dev, line>>

Next == ListDevices \/ RunMenu \/ RunSetDefault

Spec == Init /\ [][Next]_vars

----------------------------------------------------------------------------
(* One device through the menu: rendered, written back by the menu, split *)

NameChars == {" ", "a", "7"}

LineIds == (0 - MaxId)..MaxId \cup {65536, 2147483647, -2147483647}

InitLine ==
    /\ Idle
    /\ pc = "render"
    /\ dev \in {AudioDevice(JNum(i), JStr(nm), dir) :
                  i \in LineIds, nm \in SeqsUpTo(NameChars, MaxNameLen), dir \in {INPUT}}
    /\ line = <<>>
    /\ node = None /\ result = Pending

RenderLine ==
    /\ pc = "render"
    /\ line' = MenuLine(dev)
    /\ pc' = "shown"
    /\ UNCHANGED <<cmd, dump, devices, calls, menuOut, id, outcome, exc, node, result, dev>>

\* The menu writes the chosen line and a newline.
MenuEcho ==
    /\ pc = "shown"
    /\ menuOut' = line \o <<"\n">>
    /\ pc' = "chosen"
    /\ UNCHANGED <<cmd, dump, devices, calls, id, outcome, exc, node, result, dev, line>>

SplitChoice ==
    /\ pc = "chosen"
    /\ id' = FirstField(menuOut)
    /\ pc' = "split"
    /\ UNCHANGED <<cmd, dump, devices, calls, menuOut, outcome, exc, node, result, dev, line>>

NextLine == RenderLine \/ MenuEcho \/ SplitChoice

SpecLine == InitLine /\ [][NextLine]_vars

----------------------------------------------------------------------------
(* Properties of the command handlers, under Spec *)

Ran(i) == Len(calls) >= i

\* What int() accepts and returns: the reading of "a parseable id".
WHITESPACE == {" ", "\n"}

DigitVal(c) == CHOOSE v \in 0..9 : DIGITS[v + 1] = c

RECURSIVE NatOf(_)
NatOf(t) ==
    IF Len(t) = 0 THEN 0
    ELSE NatOf(SubSeq(t, 1, Len(t) - 1)) * 10 + DigitVal(t[Len(t)])

Strip(t) ==
    LET keep == {i \in 1..Len(t) : t[i] \notin WHITESPACE} IN
    IF keep = {} THEN <<>>
    ELSE SubSeq(t, CHOOSE i \in keep : \A j \in keep : i <= j,
                   CHOOSE i \in keep : \A j \in keep : i >= j)

IsDigits(t) == Len(t) > 0 /\ \A i \in 1..Len(t) : \E v \in 1..10 : DIGITS[v] = t[i]

\* Does int(t) succeed: optional blanks, an optional sign, decimal digits.
IsIntText(t) ==
    LET u == Strip(t) IN
    IF Len(u) > 0 /\ u[1] \in {"-", "+"} THEN IsDigits(Tail(u)) ELSE IsDigits(u)

\* int(t), for a text int() accepts.
IntOf(t) ==
    LET u == Strip(t) IN
    IF u[1] = "-" THEN 0 - NatOf(Tail(u))
    ELSE IF u[1] = "+" THEN NatOf(Tail(u))
    ELSE NatOf(u)

\* C1: in both subcommands a non-zero exit of pw-dump ends the run with an
\* uncaught error (non-zero exit of the process), and neither the menu nor
\* set-default is run.
C1DumpFailurePropagates ==
    (pc = "done" /\ Ran(1) /\ calls[1].res = "nonzero")
        => (outcome = "error" /\ exc = "CalledProcessError" /\ Len(calls) = 1)

\* C2: in both subcommands, when pw-dump succeeded and the menu exits non-zero,
\* set-default is never run and the handler ends normally, no error raised.
C2MenuCancelEndsNormally ==
    (Ran(2) /\ calls[2].res = "nonzero")
        => /\ pc = "done"
           /\ outcome = "exit0"
           /\ Len(calls) = 2
           /\ calls[1].res = "ok"
           /\ \A i \in 1..Len(calls) : calls[i].prog # "wpctl"

C2Witness ==
    /\ cmd = "select_sink"
    /\ pc = "done"
    /\ Len(calls) = 2
    /\ calls[2].prog = "menu"
    /\ calls[2].res = "nonzero"
    /\ Len(devices) > 0

\* C3: in both subcommands, when the menu succeeded and set-default exits
\* non-zero, the handler ends normally: the error is caught, and no further
\* command is run.
C3SetDefaultFailureSwallowed ==
    (Ran(3) /\ calls[3].res = "nonzero")
        => /\ pc = "done"
           /\ outcome = "exit0"
           /\ exc = "CalledProcessError"
           /\ calls[3].prog = "wpctl"
           /\ calls[2].res = "ok"
           /\ Len(calls) = 3

C3Witness ==
    /\ cmd = "select_source"
    /\ pc = "done"
    /\ Len(calls) = 3
    /\ calls[3].prog = "wpctl"
    /\ calls[3].res = "nonzero"
    /\ IsIntText(calls[3].arg)

Rank(all, i, dir) == Cardinality({j \in 1..i : all[j].direction = dir})

\* C7: for one dump output, get_inputs() is the subsequence of
\* get_audio_devices() with direction INPUT and get_outputs() the subsequence
\* with direction OUTPUT, both in dump order; every device is in exactly one
\* of the two lists and the lists hold nothing else.
C7InputsOutputsPartition ==
    LET all == get_audio_devices("ok", dump)
        ins == get_inputs("ok", dump)
        outs == get_outputs("ok", dump)
    IN (pc # "start" /\ dump.valid /\ all.tag = "return")
        => /\ ins.tag = "return" /\ outs.tag = "return"
           /\ Len(ins.val) + Len(outs.val) = Len(all.val)
           /\ \A i \in 1..Len(ins.val) : ins.val[i].direction = INPUT
           /\ \A i \in 1..Len(outs.val) : outs.val[i].direction = OUTPUT
           /\ \A i \in 1..Len(all.val) :
                IF all.val[i].direction = INPUT
                THEN /\ Rank(all.val, i, INPUT) <= Len(ins.val)
                     /\ ins.val[Rank(all.val, i, INPUT)] = all.val[i]
                ELSE /\ Rank(all.val, i, OUTPUT) <= Len(outs.val)
                     /\ outs.val[Rank(all.val, i, OUTPUT)] = all.val[i]
           /\ pc = "listed" =>
                devices = IF cmd = "select_source" THEN ins.val ELSE outs.val

C7Witness ==
    /\ pc = "listed"
    /\ cmd = "select_source"
    /\ dump.valid
    /\ Len(dump.nodes) = 2
    /\ get_audio_devices("ok", dump).tag = "return"
    /\ Len(get_audio_devices("ok", dump).val) = 2
    /\ get_audio_devices("ok", dump).val[1].direction = OUTPUT
    /\ get_audio_devices("ok", dump).val[2].direction = INPUT
    /\ Len(devices) = 1

CommandOrder == <<"pw-dump", "menu", "wpctl">>

DefaultSet == Len(calls) = 3 /\ calls[3].res = "ok" /\ exc = "none" /\ outcome = "exit0"

Aborted == exc # "none" /\ (Len(calls) < 3 \/ calls[3].res # "ok")

\* C9: in every run the commands are run in the order dump, menu, set-default,
\* each at most once; the menu only after the dump succeeded and was decoded,
\* set-default only after the menu exited 0; a run ends either with the default
\* set or aborted, and no command is run after a failure.
C9LinearPipeline ==
    /\ Len(calls) <= 3
    /\ \A i \in 1..Len(calls) : calls[i].prog = CommandOrder[i]
    /\ \A i \in 2..Len(calls) : calls[i - 1].res = "ok"
    /\ Ran(2) => dump.valid /\ get_audio_devices("ok", dump).tag = "return"
    /\ exc # "none" => pc = "done"
    /\ pc = "done" <=> outcome # "running"
    /\ pc = "done" => (DefaultSet /\ ~Aborted) \/ (Aborted /\ ~DefaultSet)

C9Witness ==
    /\ pc = "done"
    /\ Len(calls) = 3
    /\ calls[3].res = "ok"
    /\ IsIntText(calls[3].arg)
    /\ DefaultSet

UnparseableChoice ==
    /\ cmd = "select_source"
    /\ pc = "done"
    /\ Ran(2)
    /\ calls[2].res = "ok"
    /\ ~IsIntText(id)

\* arg is the text before the first space of text (all of it without a space).
IsFirstFieldOf(arg, text) ==
    /\ \A i \in 1..Len(arg) : arg[i] # " "
    /\ \/ arg = text
       \/ /\ Len(text) > Len(arg)
          /\ SubSeq(text, 1, Len(arg)) = arg
          /\ text[Len(arg) + 1] = " "

\* C10 as stated: in select_source, when the menu exits 0 and the text before
\* the first space of its output is not a parseable id, a parsing error is
\* raised and not caught, the run ends with an error and set-default is not
\* run with that text.
C10ParsingErrorRaised ==
    UnparseableChoice => (outcome = "error" /\ exc = "ValueError" /\ Len(calls) = 2)

\* C10 amended: in select_source, when the menu exits 0 and the text before the
\* first space of its output is not a parseable id, no parsing error is raised:
\* set-default is run with exactly that text as its argument, and the run ends
\* normally whatever exit code set-default returns (it ends with an error only
\* if the set-default command cannot be launched).
C10UnparseableIdPassedOn ==
    UnparseableChoice
        => /\ Len(calls) = 3
           /\ calls[3].prog = "wpctl"
           /\ calls[3].arg = id
           /\ IsFirstFieldOf(calls[3].arg, menuOut)
           /\ exc # "ValueError"
           /\ calls[3].res # "oserror" => outcome = "exit0"
           /\ calls[3].res = "oserror" => outcome = "error" /\ exc = "OSError"

C10Witness ==
    /\ UnparseableChoice
    /\ menuOut = <<>>
    /\ Len(calls) = 3
    /\ calls[3].arg = <<>>
    /\ calls[3].res = "nonzero"
    /\ outcome = "exit0"

----------------------------------------------------------------------------
(* Properties of the device parser, under SpecParse *)

PropKeys == {"object.id", "node.description", "media.class"}

IsDict(v) == v.k = "dict"

HasProps(nd) ==
    /\ "info" \in DOMAIN nd.d
    /\ IsDict(nd.d["info"])
    /\ "props" \in DOMAIN nd.d["info"].d
    /\ IsDict(nd.d["info"].d["props"])

WellFormed(nd) ==
    /\ IsDict(nd)
    /\ "type" \in DOMAIN nd.d
    /\ nd.d["type"] = JStr(PW_NODE) =>
        HasProps(nd) /\ PropKeys \subseteq DOMAIN nd.d["info"].d["props"].d

\* C4: for a well-formed record the parser returns None when type is not
\* "PipeWire:Interface:Node"; otherwise a device of direction OUTPUT for
\* "Audio/Sink", INPUT for "Audio/Source", None for another media.class; the
\* device carries object.id as id, node.description as name, and muted and
\* volume are None.
C4ParserMapsWellFormedRecords ==
    (pc = "parsed" /\ WellFormed(node)) =>
        IF node.d["type"] # JStr(PW_NODE) THEN result = Returned(None)
        ELSE LET P == node.d["info"].d["props"].d IN
             IF P["media.class"] \in {JStr(AUDIO_SINK), JStr(AUDIO_SOURCE)}
             THEN /\ result.tag = "return"
                  /\ result.val =
                        [id |-> P["object.id"],
                         name |-> P["node.description"],
                         direction |-> IF P["media.class"] = JStr(AUDIO_SINK)
                                       THEN "OUTPUT" ELSE "INPUT",
                         muted |-> JNull,
                         volume |-> JNull]
             ELSE result = Returned(None)

C4Witness ==
    /\ pc = "parsed"
    /\ WellFormed(node)
    /\ node.d["type"] = JStr(PW_NODE)
    /\ node.d["info"].d["props"].d["media.class"] = JStr(AUDIO_SINK)
    /\ result.tag = "return"
    /\ result.val # None
    /\ result.val.id = JNum(42)

KeyMissing(nd) ==
    /\ IsDict(nd)
    /\ \/ "type" \notin DOMAIN nd.d
       \/ "info" \notin DOMAIN nd.d
       \/ IsDict(nd.d["info"]) /\ "props" \notin DOMAIN nd.d["info"].d
       \/ HasProps(nd) /\ ~(PropKeys \subseteq DOMAIN nd.d["info"].d["props"].d)

\* C5: for a record that is a mapping and in which a required key is missing
\* from its mapping (type, info, props, object.id, node.description or
\* media.class), the parser returns None and does not raise, whatever the
\* other fields hold.
C5MissingKeyReturnsNone ==
    (pc = "parsed" /\ KeyMissing(node)) => result = Returned(None)

C5Witness ==
    /\ pc = "parsed"
    /\ IsDict(node)
    /\ "type" \in DOMAIN node.d
    /\ node.d["type"] = JStr(PW_NODE)
    /\ HasProps(node)
    /\ DOMAIN node.d["info"].d["props"].d = {"object.id", "node.description"}
    /\ result = Returned(None)

WrongShape(nd) ==
    \/ ~IsDict(nd)
    \/ /\ IsDict(nd)
       /\ "info" \in DOMAIN nd.d
       /\ \/ ~IsDict(nd.d["info"])
          \/ /\ "props" \in DOMAIN nd.d["info"].d
             /\ ~IsDict(nd.d["info"].d["props"])

\* C6: a record in which the record itself, info or props is not a mapping is
\* rejected by returning None; the parser never raises.
C6WrongShapeReturnsNone ==
    (pc = "parsed" /\ WrongShape(node)) => result = Returned(None)

----------------------------------------------------------------------------
(* The round trip of the menu line, under SpecLine *)

\* C8: for an integer id and any name, the text before the first space of the
\* line "<id> <name>", as the menu writes it, is the decimal text of the id:
\* it reads back as the same integer.
C8MenuLineRoundTrip ==
    pc = "split" =>
        /\ id = IntToStr(dev.id.n)
        /\ IsIntText(id)
        /\ IntOf(id) = dev.id.n
        /\ IsFirstFieldOf(id, menuOut)

C8Witness ==
    /\ pc = "split"
    /\ dev.id.n = -120
    /\ dev.name.s = <<" ", "7">>
    /\ id = <<"-", "1", "2", "0">>

====
